---- MODULE Spec2Model ----
(***************************************************************************)
(* A model of src/flaresolverr_service.py: the command dispatcher, the     *)
(* session store it calls, and the challenge detection / wait / extraction *)
(* state machine (_resolve_challenge and _evil_logic).                     *)
(*                                                                         *)
(* Optional request fields are tuples of length 0 (None) or 1 (a value).   *)
(* Durations are kept in milliseconds, so that int(maxTimeout) / 1000 is   *)
(* exact; PyFloatStr prints such a duration the way Python prints the      *)
(* float number of seconds.                                                *)
(***************************************************************************)
EXTENDS Integers, Sequences, FiniteSets, TLC

VARIABLES
    PLATFORM_VERSION, \* utils.PLATFORM_VERSION: "nt" or "posix"
    site,             \* which site is browsed: the name of a set of pages
    flaky,            \* whether browser-driver calls may fail spontaneously
    inbox,            \* which commands clients send: the name of a set
    sessions,         \* SESSIONS_STORAGE: session id -> [driver, created_at]
    drivers,          \* every driver constructed so far: [owner, live]
    uuids,            \* number of session ids generated so far
    now,              \* wall clock of the store, in minutes
    budget,           \* commands each worker may still accept
    pc,               \* position of each worker in its command
    req,              \* the command the worker is handling (V1RequestBase)
    fresh,            \* _resolve_challenge: fresh, as returned by the store
    driver,           \* _resolve_challenge: driver (0 is None)
    timeout,          \* req.maxTimeout after line 127: the deadline, in ms
    elapsed,          \* time spent inside func_timeout, in milliseconds
    page,             \* the page the worker's current tab displays
    reloads,          \* number of times the site changed the page by itself
    html_element,     \* _evil_logic: html_element: [captured, stale]
    verdict,          \* outcome of the detection step
    attempt,          \* _evil_logic: attempt
    idx,              \* position in CHALLENGE_TITLES / CHALLENGE_SELECTORS
    recoveries,       \* calls of click_verify_with_actions so far
    newtabs,          \* calls of switch_to_new_tab so far
    res,              \* _evil_logic: res (ChallengeResolutionT)
    exc,              \* the exception travelling up, "" if none
    start_ts,         \* controller_v1_endpoint: start_ts, in milliseconds
    resp,             \* the response of controller_v1_endpoint
    snapshot,         \* detector check: a page snapshot
    klass,            \* detector check: its classification
    browser,          \* tab check: window_handles, each tab's url, the current tab
    call              \* tab check: the call of get_correct_window and its outcome

vars == <<PLATFORM_VERSION, site, flaky, inbox, sessions, drivers, uuids, now, budget,
          pc, req, fresh, driver, timeout, elapsed, page, reloads,
          html_element, verdict, attempt, idx, recoveries, newtabs, res, exc,
          start_ts, resp, snapshot, klass, browser, call>>

envVars == <<PLATFORM_VERSION, site, flaky, inbox>>
storeVars == <<sessions, drivers, uuids>>
detVars == <<snapshot, klass, browser, call>>
waitVars == <<page, reloads, html_element, verdict, attempt, idx,
              recoveries, newtabs, res>>

----------------------------------------------------------------------------
(* Program constants *)

ACCESS_DENIED_TITLES == <<"Access denied", "Attention Required! | Cloudflare">>

ACCESS_DENIED_SELECTORS ==
    <<"div.cf-error-title span.cf-code-label span",
      "#cf-error-details div.cf-error-overview h1">>

CHALLENGE_TITLES == <<"Just a moment...", "DDoS-Guard">>

CHALLENGE_SELECTORS ==
    <<"#cf-challenge-running", ".ray_id", ".attack-box", "#cf-please-wait",
      "#challenge-spinner", "#trk_jschal_js", "#turnstile-wrapper", ".lds-ring",
      "td.info #js_info", "div.vc div.text-box h2">>

SHORT_TIMEOUT == 1

LONG_TIMEOUT == 5

STATUS_OK == "ok"

STATUS_ERROR == "error"

DEFAULT_MAX_TIMEOUT == 60000

\* time.sleep(1) in switch_to_new_tab
NEW_TAB_SLEEP == 1

\* time.sleep(5) after the new tab, in the loop of _evil_logic
HARD_REFRESH_SLEEP == 5

\* time.sleep(2) at the end of click_verify_with_actions
CLICK_VERIFY_SLEEP == 2

----------------------------------------------------------------------------
(* Bounds of the model *)

\* the largest maxTimeout a modelled request carries, in seconds
MaxTimeoutSec == 24

\* the most tabs a browser has open when get_correct_window is called
MaxTabs == 4

\* how often the site may change the displayed page by itself in one request
MaxReloads == 1

\* the commands worker w1 accepts in the session-store specification (w2: one)
MaxCmds == 2

\* the store's clock stops here (minutes)
MaxNow == 2

Procs == {"w1", "w2"}

----------------------------------------------------------------------------
(* Values *)

None == <<>>

Some(v) == <<v>>

IsNone(o) == o = <<>>

Val(o) == o[1]

\* Python truthiness of an optional string / optional integer / optional bool
TruthyStr(o) == o # None /\ Val(o) # ""

TruthyInt(o) == o # None /\ Val(o) # 0

TruthyBool(o) == o # None /\ Val(o)

Range(s) == {s[i] : i \in 1..Len(s)}

AllSelectors == Range(ACCESS_DENIED_SELECTORS) \cup Range(CHALLENGE_SELECTORS)

\* str.lower() on the titles of the model's universe
Lower(t) ==
    CASE t = "Access denied" -> "access denied"
      [] t = "Attention Required! | Cloudflare" -> "attention required! | cloudflare"
      [] t = "Just a moment..." -> "just a moment..."
      [] t = "JUST A MOMENT..." -> "just a moment..."
      [] t = "DDoS-Guard" -> "ddos-guard"
      [] t = "Example Domain" -> "example domain"
      [] OTHER -> t

AllTitles ==
    Range(ACCESS_DENIED_TITLES) \cup Range(CHALLENGE_TITLES)
        \cup {"access denied", "just a moment...", "JUST A MOMENT...",
              "ddos-guard", "Example Domain"}

\* every page snapshot over the title universe and the selector tables
AllPages == [title : AllTitles, sels : SUBSET AllSelectors]

Digit(d) == ToString(d)

\* str(ms / 1000) for a Python float, 1 <= ms < 10^16
PyFloatStr(ms) ==
    LET whole == ms \div 1000
        frac == ms % 1000
        d1 == frac \div 100
        d2 == (frac \div 10) % 10
        d3 == frac % 10
    IN  ToString(whole) \o "." \o
        (IF d3 # 0 THEN Digit(d1) \o Digit(d2) \o Digit(d3)
         ELSE IF d2 # 0 THEN Digit(d1) \o Digit(d2)
         ELSE Digit(d1))

----------------------------------------------------------------------------
(* Challenge detector: _evil_logic, lines 449-478, on one page snapshot *)

\* index of the first entry of a table that is one of matching, 0 if none is
FirstIndex(table, matching) ==
    LET hits == {i \in 1..Len(table) : table[i] \in matching}
    IN  IF hits = {} THEN 0 ELSE CHOOSE i \in hits : \A j \in hits : i <= j

\* for title in ACCESS_DENIED_TITLES: if title == page_title
DeniedTitle(pg) == FirstIndex(ACCESS_DENIED_TITLES, {pg.title})

\* for selector in ACCESS_DENIED_SELECTORS: len(find_elements(selector)) > 0
DeniedSelector(pg) == FirstIndex(ACCESS_DENIED_SELECTORS, pg.sels)

\* for title in CHALLENGE_TITLES: if title.lower() == page_title.lower()
ChallengeTitle(pg) ==
    FirstIndex(CHALLENGE_TITLES,
               {t \in Range(CHALLENGE_TITLES) : Lower(t) = Lower(pg.title)})

\* for selector in CHALLENGE_SELECTORS: len(find_elements(selector)) > 0
ChallengeSelector(pg) == FirstIndex(CHALLENGE_SELECTORS, pg.sels)

\* a detector that looks for a challenge before it looks for a block
ClassifyChallengeFirst(pg) ==
    IF ChallengeTitle(pg) # 0 \/ ChallengeSelector(pg) # 0 THEN "CHALLENGED"
    ELSE IF DeniedTitle(pg) # 0 \/ DeniedSelector(pg) # 0 THEN "BLOCKED"
    ELSE "CLEAR"

\* the outcome of lines 452-478: the raise, or challenge_found
Classify(pg) ==
    IF DeniedTitle(pg) # 0 THEN "BLOCKED"
    ELSE IF DeniedSelector(pg) # 0 THEN "BLOCKED"
    ELSE IF ChallengeTitle(pg) # 0 THEN "CHALLENGED"
    ELSE IF ChallengeSelector(pg) # 0 THEN "CHALLENGED"
    ELSE "CLEAR"

\* selenium's title_is(title): exact equality with the current title
title_is(t, pg) == pg.title = t

\* selenium's presence_of_element_located((By.CSS_SELECTOR, selector))
presence_of_element_located(s, pg) == s \in pg.sels

----------------------------------------------------------------------------
(* Session store: SessionsStorage of sessions.py, which this file imports   *)
(* (line 23) and whose source is not part of src/.  Its three operations    *)
(* follow section 4.1 of the specification; each is one atomic step, as     *)
(* section 4.1 requires of the store.                                       *)

EPHEMERAL == "<ephemeral>"

\* utils.get_webdriver(proxy): a new live driver, numbered Len(ds) + 1
NewDriver(ds, owner) == Append(ds, [owner |-> owner, live |-> TRUE])

\* driver.quit()
QuitDriver(ds, d) == [ds EXCEPT ![d].live = FALSE]

Uuid(n) == "uuid-" \o ToString(n)

Put(ss, id, entry) == [k \in DOMAIN ss \cup {id} |-> IF k = id THEN entry ELSE ss[k]]

Remove(ss, id) == [k \in DOMAIN ss \ {id} |-> ss[k]]

\* create(id?, proxy?) -> (session, wasFresh)
StoreCreate(ss, ds, u, id, t) ==
    IF id # None /\ Val(id) \in DOMAIN ss
    THEN [sessions |-> ss, drivers |-> ds, uuids |-> u,
          session_id |-> Val(id), fresh |-> FALSE]
    ELSE LET sid == IF id = None THEN Uuid(u + 1) ELSE Val(id)
             u2 == IF id = None THEN u + 1 ELSE u
             ds2 == NewDriver(ds, sid)
         IN  [sessions |-> Put(ss, sid, [driver |-> Len(ds2), created_at |-> t]),
              drivers |-> ds2, uuids |-> u2, session_id |-> sid, fresh |-> TRUE]

\* a get that forgets to release the driver of an expired session
StoreGetLeaky(ss, ds, u, sid, ttl, t) ==
    IF sid \notin DOMAIN ss THEN StoreCreate(ss, ds, u, Some(sid), t)
    ELSE IF ttl # None /\ t - ss[sid].created_at > Val(ttl)
    THEN LET ds2 == NewDriver(ds, sid)
         IN  [sessions |-> Put(ss, sid, [driver |-> Len(ds2), created_at |-> t]),
              drivers |-> ds2, uuids |-> u, session_id |-> sid, fresh |-> TRUE]
    ELSE [sessions |-> ss, drivers |-> ds, uuids |-> u,
          session_id |-> sid, fresh |-> FALSE]

\* get(id, ttl?) -> (session, wasFresh)
StoreGet(ss, ds, u, sid, ttl, t) ==
    IF sid \notin DOMAIN ss THEN StoreCreate(ss, ds, u, Some(sid), t)
    ELSE IF ttl # None /\ t - ss[sid].created_at > Val(ttl)
    THEN LET ds1 == QuitDriver(ds, ss[sid].driver)
             ds2 == NewDriver(ds1, sid)
         IN  [sessions |-> Put(ss, sid, [driver |-> Len(ds2), created_at |-> t]),
              drivers |-> ds2, uuids |-> u, session_id |-> sid, fresh |-> TRUE]
    ELSE [sessions |-> ss, drivers |-> ds, uuids |-> u,
          session_id |-> sid, fresh |-> FALSE]

\* destroy(id) -> existed
StoreDestroy(ss, ds, id) ==
    IF id # None /\ Val(id) \in DOMAIN ss
    THEN [sessions |-> Remove(ss, Val(id)),
          drivers |-> QuitDriver(ds, ss[Val(id)].driver), existed |-> TRUE]
    ELSE [sessions |-> ss, drivers |-> ds, existed |-> FALSE]


----------------------------------------------------------------------------
(* Inputs *)

URL == "https://example.org/"

ClearPage == [title |-> "Example Domain", sels |-> {}]

\* one page of every kind the detector tells apart, and a page whose title
\* differs from a challenge title in case only
SmallSite ==
    { ClearPage,
      [title |-> "Access denied", sels |-> {}],
      [title |-> "Just a moment...", sels |-> {ACCESS_DENIED_SELECTORS[2]}],
      [title |-> "Just a moment...", sels |-> {}],
      [title |-> "Example Domain", sels |-> {CHALLENGE_SELECTORS[2]}],
      [title |-> "just a moment...", sels |-> {}] }

\* challenge pages and clear pages, with the first and the last selector
WaitSite ==
    [title : {"Just a moment...", "DDoS-Guard", "just a moment...", "Example Domain"},
     sels : SUBSET {CHALLENGE_SELECTORS[1], CHALLENGE_SELECTORS[Len(CHALLENGE_SELECTORS)]}]

NoReq ==
    [cmd |-> None, session |-> None, session_ttl_minutes |-> None, url |-> None,
     postData |-> None, returnOnlyCookies |-> None, maxTimeout |-> None]

\* requests without a session
EphemeralRequests ==
    [cmd : {Some("request.get"), Some("request.post")},
     session : {None, Some("")},
     session_ttl_minutes : {None},
     url : {Some(URL)},
     postData : {None, Some(""), Some("a=b")},
     returnOnlyCookies : {None, Some(FALSE), Some(TRUE)},
     maxTimeout : {Some(MaxTimeoutSec * 1000)}]

\* requests that name a session
SessionRequests ==
    [cmd : {Some("request.get")},
     session : {Some("s1")},
     session_ttl_minutes : {None, Some(0), Some(1)},
     url : {None, Some(URL)},
     postData : {None},
     returnOnlyCookies : {None},
     maxTimeout : {Some(MaxTimeoutSec * 1000)}]

\* the one request the waiter is studied with; its deadline leaves room for
\* six attempts
WaitRequests ==
    [cmd : {Some("request.get")},
     session : {None},
     session_ttl_minutes : {None},
     url : {Some(URL)},
     postData : {None},
     returnOnlyCookies : {None},
     maxTimeout : {Some(2 * MaxTimeoutSec * 1000)}]

\* requests without a url
NoUrlRequests ==
    [cmd : {Some("request.get"), Some("request.post")},
     session : {None},
     session_ttl_minutes : {None},
     url : {None},
     postData : {None, Some("a=b")},
     returnOnlyCookies : {None},
     maxTimeout : {Some(MaxTimeoutSec * 1000)}]

\* requests with every kind of maxTimeout
TimeoutRequests ==
    [cmd : {Some("request.get")},
     session : {None},
     session_ttl_minutes : {None},
     url : {Some(URL)},
     postData : {None},
     returnOnlyCookies : {None},
     maxTimeout : {None, Some(-1), Some(0), Some(1), Some(1500)}]

\* commands without a cmd, with an unknown cmd, and sessions.list
OtherCommands ==
    [cmd : {None, Some("sessions.purge"), Some("sessions.list")},
     session : {None},
     session_ttl_minutes : {None}, url : {None}, postData : {None},
     returnOnlyCookies : {None}, maxTimeout : {None, Some(0)}]

\* the commands of the session-store specification
StoreCommands ==
    [cmd : {Some("sessions.create")},
     session : {None, Some("s1")},
     session_ttl_minutes : {None}, url : {None}, postData : {None},
     returnOnlyCookies : {None}, maxTimeout : {None}]
    \cup
    [cmd : {Some("sessions.destroy")},
     session : {Some("s1"), Some("nope")},
     session_ttl_minutes : {None}, url : {None}, postData : {None},
     returnOnlyCookies : {None}, maxTimeout : {None}]
    \cup
    [cmd : {Some("request.get")},
     session : {None, Some("s1")},
     session_ttl_minutes : {None, Some(1)},
     url : {Some(URL)}, postData : {None},
     returnOnlyCookies : {None}, maxTimeout : {None}]

IsRequest(r) == r.cmd \in {Some("request.get"), Some("request.post")}

\* the pages of the site named n
Pages(n) ==
    CASE n = "small" -> SmallSite
      [] n = "wait" -> WaitSite
      [] OTHER -> {ClearPage}

\* the commands of the inbox named n
Commands(n) ==
    CASE n = "requests" -> EphemeralRequests \cup SessionRequests
      [] n = "wait" -> WaitRequests
      [] n = "store" -> StoreCommands
      [] n = "all" -> EphemeralRequests \cup SessionRequests \cup NoUrlRequests
                          \cup TimeoutRequests \cup OtherCommands
                          \cup {c \in StoreCommands : ~IsRequest(c)}
      [] OTHER -> {}

----------------------------------------------------------------------------
(* Messages *)

MSG_URL_MANDATORY == "Request parameter 'url' is mandatory in 'request.get' command."

MSG_POSTBODY_GET == "Cannot use 'postBody' when sending a GET request."

MSG_POSTDATA_MANDATORY ==
    "Request parameter 'postData' is mandatory in 'request.post' command."

MSG_BLOCKED ==
    "Cloudflare has blocked this request. " \o
    "Probably your IP is banned for this site, check in your web browser."

MSG_CMD_MANDATORY == "Request parameter 'cmd' is mandatory."

MSG_CMD_INVALID(cmd) == "Request parameter 'cmd' = '" \o cmd \o "' is invalid."

MSG_NO_SESSION == "The session doesn't exist."

\* str(e) of an exception raised by the browser driver
MSG_DRIVER == "Message: invalid session id"

\* str(e) of the IndexError of req.postData[0] on an empty postData
MSG_INDEX == "string index out of range"

\* str(e) of the AttributeError of pivot_element.location on a list
MSG_ATTRIBUTE == "'list' object has no attribute 'location'"

\* selenium's TimeoutException
TimeoutException == "TimeoutException"

FunctionTimedOut == "FunctionTimedOut"

\* utils.get_flaresolverr_version()
VERSION == "version"

\* int(time.time() * 1000) on the clock the store reads in minutes
ClockMs(t) == t * 60000

\* an exception handler that reports success
ErrorResponseOk(msg) ==
    [status |-> STATUS_OK, message |-> "Error: " \o msg,
     session |-> None, sessions |-> None, solution |-> None]

\* controller_v1_endpoint, lines 101-105
ErrorResponse(msg) ==
    [status |-> STATUS_ERROR, message |-> "Error: " \o msg,
     session |-> None, sessions |-> None, solution |-> None]

\* controller_v1_endpoint, lines 108-110 and 113: the response returned
Stamped(r, s, e) ==
    [status |-> r.status, message |-> r.message, session |-> r.session,
     sessions |-> r.sessions, solution |-> r.solution,
     startTimestamp |-> s, endTimestamp |-> e, version |-> VERSION]

\* _resolve_challenge, lines 262-265: the exception the two handlers raise
Wrapped(e, tmo) ==
    IF e = FunctionTimedOut
    THEN "Error solving the challenge. Timeout after " \o PyFloatStr(tmo) \o " seconds."
    ELSE "Error solving the challenge. " \o e

\* a default that is applied to negative values only
EffectiveMaxTimeoutNegative(r) ==
    IF r.maxTimeout = None \/ Val(r.maxTimeout) < 0
    THEN DEFAULT_MAX_TIMEOUT ELSE Val(r.maxTimeout)

\* _controller_v1_handler, lines 126-127
EffectiveMaxTimeout(r) ==
    IF r.maxTimeout = None \/ Val(r.maxTimeout) < 1
    THEN DEFAULT_MAX_TIMEOUT ELSE Val(r.maxTimeout)

\* _cmd_request_get, lines 149-152 and _cmd_request_post, lines 168-169:
\* the validation error, "" if the request passes
ValidationError(r) ==
    IF r.cmd = Some("request.get")
    THEN IF r.url = None THEN MSG_URL_MANDATORY
         ELSE IF r.postData # None THEN MSG_POSTBODY_GET
         ELSE ""
    ELSE IF r.postData = None THEN MSG_POSTDATA_MANDATORY ELSE ""

\* _resolve_challenge, line 247
Ttl(r) ==
    IF TruthyInt(r.session_ttl_minutes) THEN r.session_ttl_minutes ELSE None

Live(d) == d # 0 /\ drivers[d].live

BlankPage == [title |-> "", sels |-> {}]

NoElement == [captured |-> -1, stale |-> FALSE]

NoRes == [status |-> STATUS_OK, message |-> "", result |-> None]

Upd(f, p, v) == [f EXCEPT ![p] = v]

\* the locals of _evil_logic as they are when a request starts
ResetLocals(p) ==
    /\ elapsed' = Upd(elapsed, p, 0)
    /\ page' = Upd(page, p, BlankPage)
    /\ reloads' = Upd(reloads, p, 0)
    /\ html_element' = Upd(html_element, p, NoElement)
    /\ verdict' = Upd(verdict, p, "")
    /\ attempt' = Upd(attempt, p, 0)
    /\ idx' = Upd(idx, p, 0)
    /\ recoveries' = Upd(recoveries, p, 0)
    /\ newtabs' = Upd(newtabs, p, 0)
    /\ res' = Upd(res, p, NoRes)

----------------------------------------------------------------------------
(* Commands on the session store *)

\* a create handler whose two messages are swapped
CreateMessageSwapped(f) ==
    IF f THEN "Session already exists." ELSE "Session created successfully."

\* _cmd_sessions_create, lines 189-200
CreateMessage(f) ==
    IF ~f THEN "Session already exists." ELSE "Session created successfully."

\* controller_v1_endpoint -> _cmd_sessions_create
CmdSessionsCreate(p) ==
    /\ pc[p] = "idle" /\ budget[p] > 0
    /\ \E r \in Commands(inbox) :
        /\ r.cmd = Some("sessions.create")
        /\ LET c == StoreCreate(sessions, drivers, uuids, r.session, now)
           IN  /\ sessions' = c.sessions
               /\ drivers' = c.drivers
               /\ uuids' = c.uuids
               /\ fresh' = Upd(fresh, p, c.fresh)
               /\ resp' = Upd(resp, p, Some(Stamped(
                     [status |-> STATUS_OK, message |-> CreateMessage(c.fresh),
                      session |-> Some(c.session_id), sessions |-> None,
                      solution |-> None], ClockMs(now), ClockMs(now))))
        /\ req' = Upd(req, p, r)
        /\ timeout' = Upd(timeout, p, EffectiveMaxTimeout(r))
    /\ budget' = Upd(budget, p, budget[p] - 1)
    /\ exc' = Upd(exc, p, "")
    /\ start_ts' = Upd(start_ts, p, ClockMs(now))
    /\ UNCHANGED <<envVars, now, pc, driver, elapsed, waitVars, detVars>>

\* a destroy handler that reports success whether or not the session existed
DestroyResponseAlwaysOk(existed) ==
    [status |-> STATUS_OK, message |-> "The session has been removed.",
     session |-> None, sessions |-> None, solution |-> None]

\* _cmd_sessions_destroy, lines 217-223, and the handler of lines 101-105
DestroyResponse(existed) ==
    IF ~existed THEN ErrorResponse(MSG_NO_SESSION)
    ELSE [status |-> STATUS_OK, message |-> "The session has been removed.",
          session |-> None, sessions |-> None, solution |-> None]

\* controller_v1_endpoint -> _cmd_sessions_destroy
CmdSessionsDestroy(p) ==
    /\ pc[p] = "idle" /\ budget[p] > 0
    /\ \E r \in Commands(inbox) :
        /\ r.cmd = Some("sessions.destroy")
        /\ LET d == StoreDestroy(sessions, drivers, r.session)
           IN  /\ sessions' = d.sessions
               /\ drivers' = d.drivers
               /\ resp' = Upd(resp, p, Some(Stamped(DestroyResponse(d.existed),
                                                    ClockMs(now), ClockMs(now))))
               /\ exc' = Upd(exc, p, IF d.existed THEN "" ELSE MSG_NO_SESSION)
        /\ req' = Upd(req, p, r)
        /\ timeout' = Upd(timeout, p, EffectiveMaxTimeout(r))
    /\ budget' = Upd(budget, p, budget[p] - 1)
    /\ start_ts' = Upd(start_ts, p, ClockMs(now))
    /\ UNCHANGED <<envVars, uuids, now, pc, fresh, driver, elapsed,
                   waitVars, detVars>>

\* session_ids()
StoreSessionIds(ss) == DOMAIN ss

\* controller_v1_endpoint -> _cmd_sessions_list
CmdSessionsList(p) ==
    /\ pc[p] = "idle" /\ budget[p] > 0
    /\ \E r \in Commands(inbox) :
        /\ r.cmd = Some("sessions.list")
        /\ req' = Upd(req, p, r)
        /\ timeout' = Upd(timeout, p, EffectiveMaxTimeout(r))
    /\ resp' = Upd(resp, p, Some(Stamped(
          [status |-> STATUS_OK, message |-> "", session |-> None,
           sessions |-> Some(StoreSessionIds(sessions)), solution |-> None],
          ClockMs(now), ClockMs(now))))
    /\ budget' = Upd(budget, p, budget[p] - 1)
    /\ exc' = Upd(exc, p, "")
    /\ start_ts' = Upd(start_ts, p, ClockMs(now))
    /\ UNCHANGED <<envVars, storeVars, now, pc, fresh, driver, elapsed,
                   waitVars, detVars>>

\* the commands _controller_v1_handler dispatches, lines 131-140
KnownCmds ==
    {"sessions.create", "sessions.list", "sessions.destroy", "request.get",
     "request.post"}

\* _controller_v1_handler, lines 118-119 and 141-142: the exception raised
\* for a command without cmd or with an unknown one, "" otherwise
CmdError(r) ==
    IF r.cmd = None THEN MSG_CMD_MANDATORY
    ELSE IF Val(r.cmd) \notin KnownCmds THEN MSG_CMD_INVALID(Val(r.cmd))
    ELSE ""

\* controller_v1_endpoint on a command that _controller_v1_handler rejects;
\* without a cmd the exception is raised before the default of line 127
CmdRejected(p) ==
    /\ pc[p] = "idle" /\ budget[p] > 0
    /\ \E r \in Commands(inbox) :
        /\ CmdError(r) # ""
        /\ req' = Upd(req, p, r)
        /\ timeout' = IF r.cmd = None THEN timeout
                      ELSE Upd(timeout, p, EffectiveMaxTimeout(r))
        /\ resp' = Upd(resp, p, Some(Stamped(ErrorResponse(CmdError(r)),
                                             ClockMs(now), ClockMs(now))))
        /\ exc' = Upd(exc, p, CmdError(r))
    /\ budget' = Upd(budget, p, budget[p] - 1)
    /\ start_ts' = Upd(start_ts, p, ClockMs(now))
    /\ UNCHANGED <<envVars, storeVars, now, pc, fresh, driver, elapsed,
                   waitVars, detVars>>

\* the store's clock advances
Tick ==
    /\ now < MaxNow
    /\ now' = now + 1
    /\ UNCHANGED <<envVars, storeVars, budget, pc, req, fresh, driver, timeout,
                   elapsed, waitVars, exc, resp, detVars, start_ts>>


----------------------------------------------------------------------------
(* request.get / request.post: _resolve_challenge around _evil_logic *)

\* a cleanup that also destroys the driver of a named session
NeedsCleanupAlways(r, d) == d # 0

\* _resolve_challenge, line 267
NeedsCleanup(r, d) == ~TruthyStr(r.session) /\ d # 0

\* controller_v1_endpoint -> _cmd_request_get / _cmd_request_post ->
\* _resolve_challenge up to the call of func_timeout (lines 242-261)
CmdRequest(p) ==
    /\ pc[p] = "idle" /\ budget[p] > 0
    /\ \E r \in Commands(inbox) :
        /\ IsRequest(r)
        /\ req' = Upd(req, p, r)
        /\ timeout' = Upd(timeout, p, EffectiveMaxTimeout(r))
        /\ IF ValidationError(r) # ""
           THEN /\ resp' = Upd(resp, p, Some(Stamped(
                                  ErrorResponse(ValidationError(r)),
                                  ClockMs(now), ClockMs(now))))
                /\ exc' = Upd(exc, p, ValidationError(r))
                /\ pc' = pc
                /\ driver' = Upd(driver, p, 0)
                /\ fresh' = Upd(fresh, p, FALSE)
                /\ UNCHANGED storeVars
           ELSE IF TruthyStr(r.session)
           THEN LET g == StoreGet(sessions, drivers, uuids, Val(r.session), Ttl(r), now)
                IN  /\ sessions' = g.sessions
                    /\ drivers' = g.drivers
                    /\ uuids' = g.uuids
                    /\ fresh' = Upd(fresh, p, g.fresh)
                    /\ driver' = Upd(driver, p, g.sessions[g.session_id].driver)
                    /\ resp' = Upd(resp, p, None)
                    /\ exc' = Upd(exc, p, "")
                    /\ pc' = Upd(pc, p, "navigate")
           ELSE \/ /\ drivers' = NewDriver(drivers, EPHEMERAL)
                   /\ driver' = Upd(driver, p, Len(drivers) + 1)
                   /\ fresh' = Upd(fresh, p, FALSE)
                   /\ resp' = Upd(resp, p, None)
                   /\ exc' = Upd(exc, p, "")
                   /\ pc' = Upd(pc, p, "navigate")
                   /\ UNCHANGED <<sessions, uuids>>
                \/ \* utils.get_webdriver raises: driver stays None
                   /\ flaky
                   /\ driver' = Upd(driver, p, 0)
                   /\ fresh' = Upd(fresh, p, FALSE)
                   /\ resp' = Upd(resp, p, None)
                   /\ exc' = Upd(exc, p, MSG_DRIVER)
                   /\ pc' = Upd(pc, p, "finally")
                   /\ UNCHANGED storeVars
    /\ budget' = Upd(budget, p, budget[p] - 1)
    /\ start_ts' = Upd(start_ts, p, ClockMs(now))
    /\ ResetLocals(p)
    /\ UNCHANGED <<envVars, now, detVars>>

\* _evil_logic, lines 426-444: navigation (and the reload after the cookies)
Navigate(p) ==
    /\ pc[p] = "navigate" /\ Live(driver[p])
    /\ IF req[p].cmd = Some("request.post") /\ req[p].postData = Some("")
       THEN /\ exc' = Upd(exc, p, MSG_INDEX)
            /\ pc' = Upd(pc, p, "finally")
            /\ page' = page
       ELSE /\ \E pg \in Pages(site) : page' = Upd(page, p, pg)
            /\ pc' = Upd(pc, p, "detect")
            /\ exc' = exc
    /\ UNCHANGED <<envVars, storeVars, now, budget, req, fresh, driver, timeout,
                   elapsed, reloads, html_element, verdict, attempt, idx,
                   recoveries, newtabs, res, resp, detVars, start_ts>>

\* a resolution whose two messages are swapped
ResolutionMessageSwapped(challenge_found) ==
    IF challenge_found THEN "Challenge not detected!" ELSE "Challenge solved!"

\* _evil_logic, lines 525-529: res.message
ResolutionMessage(challenge_found) ==
    IF challenge_found THEN "Challenge solved!" ELSE "Challenge not detected!"

\* _evil_logic, lines 449-478 and the branches of lines 481 and 527-529
Detect(p) ==
    /\ pc[p] = "detect" /\ Live(driver[p])
    /\ html_element' = Upd(html_element, p, [captured |-> 0, stale |-> FALSE])
    /\ verdict' = Upd(verdict, p, Classify(page[p]))
    /\ CASE Classify(page[p]) = "BLOCKED" ->
              /\ exc' = Upd(exc, p, MSG_BLOCKED)
              /\ pc' = Upd(pc, p, "finally")
              /\ res' = res
         [] Classify(page[p]) = "CHALLENGED" ->
              /\ pc' = Upd(pc, p, "attempt")
              /\ UNCHANGED <<exc, res>>
         [] OTHER ->
              /\ res' = Upd(res, p, [res[p] EXCEPT !.message = ResolutionMessage(FALSE)])
              /\ pc' = Upd(pc, p, "extract")
              /\ exc' = exc
    /\ UNCHANGED <<envVars, storeVars, now, budget, req, fresh, driver, timeout,
                   elapsed, page, reloads, attempt, idx, recoveries, newtabs,
                   resp, detVars, start_ts>>

\* a loop that opens the new tab on every second attempt
NewTabDueEven(a) == a % 2 = 0

\* _evil_logic, line 486
NewTabDue(a) == a % 3 = 0

\* _evil_logic, lines 484-489: the head of one loop iteration.  A
\* get_correct_window that raises is one of the failures of DriverError.
AttemptStart(p) ==
    /\ pc[p] = "attempt" /\ Live(driver[p])
    /\ attempt' = Upd(attempt, p, attempt[p] + 1)
    /\ IF NewTabDue(attempt[p] + 1)
       THEN \* switch_to_new_tab, get_correct_window, time.sleep(5)
            /\ elapsed[p] + (NEW_TAB_SLEEP + HARD_REFRESH_SLEEP) * 1000 < timeout[p]
            /\ elapsed' = Upd(elapsed, p,
                  elapsed[p] + (NEW_TAB_SLEEP + HARD_REFRESH_SLEEP) * 1000)
            /\ newtabs' = Upd(newtabs, p, newtabs[p] + 1)
            /\ \E pg \in Pages(site) : page' = Upd(page, p, pg)
            /\ html_element' = Upd(html_element, p, [html_element[p] EXCEPT !.stale = TRUE])
       ELSE UNCHANGED <<elapsed, newtabs, page, html_element>>
    /\ idx' = Upd(idx, p, 1)
    /\ pc' = Upd(pc, p, "wait_title")
    /\ UNCHANGED <<envVars, storeVars, now, budget, req, fresh, driver, timeout,
                   reloads, verdict, recoveries, res, exc, resp, detVars, start_ts>>

\* _evil_logic, line 495: the condition until_not waits on
TitleStillMatches(t, pg) == title_is(t, pg)

\* _evil_logic, lines 493-495: until_not(title_is(title)) returns
WaitTitle(p) ==
    /\ pc[p] = "wait_title" /\ Live(driver[p])
    /\ ~TitleStillMatches(CHALLENGE_TITLES[idx[p]], page[p])
    /\ IF idx[p] < Len(CHALLENGE_TITLES)
       THEN /\ idx' = Upd(idx, p, idx[p] + 1)
            /\ pc' = pc
       ELSE /\ idx' = Upd(idx, p, 1)
            /\ pc' = Upd(pc, p, "wait_selector")
    /\ UNCHANGED <<envVars, storeVars, now, budget, req, fresh, driver, timeout,
                   elapsed, page, reloads, html_element, verdict, attempt,
                   recoveries, newtabs, res, exc, resp, detVars, start_ts>>

\* _evil_logic, lines 495 and 505: until_not raises TimeoutException
WaitTitleTimeout(p) ==
    /\ pc[p] = "wait_title" /\ Live(driver[p])
    /\ TitleStillMatches(CHALLENGE_TITLES[idx[p]], page[p])
    /\ elapsed[p] + LONG_TIMEOUT * 1000 < timeout[p]
    /\ elapsed' = Upd(elapsed, p, elapsed[p] + LONG_TIMEOUT * 1000)
    /\ pc' = Upd(pc, p, "recover")
    /\ UNCHANGED <<envVars, storeVars, now, budget, req, fresh, driver, timeout,
                   page, reloads, html_element, verdict, attempt, idx,
                   recoveries, newtabs, res, exc, resp, detVars, start_ts>>

\* _evil_logic, lines 498-503: until_not(presence_of_element_located) returns;
\* after the last selector the loop breaks
WaitSelector(p) ==
    /\ pc[p] = "wait_selector" /\ Live(driver[p])
    /\ ~presence_of_element_located(CHALLENGE_SELECTORS[idx[p]], page[p])
    /\ IF idx[p] < Len(CHALLENGE_SELECTORS)
       THEN /\ idx' = Upd(idx, p, idx[p] + 1)
            /\ pc' = pc
       ELSE /\ idx' = Upd(idx, p, 0)
            /\ pc' = Upd(pc, p, "redirect")
    /\ UNCHANGED <<envVars, storeVars, now, budget, req, fresh, driver, timeout,
                   elapsed, page, reloads, html_element, verdict, attempt,
                   recoveries, newtabs, res, exc, resp, detVars, start_ts>>

\* _evil_logic, lines 500-501 and 505: until_not raises TimeoutException
WaitSelectorTimeout(p) ==
    /\ pc[p] = "wait_selector" /\ Live(driver[p])
    /\ presence_of_element_located(CHALLENGE_SELECTORS[idx[p]], page[p])
    /\ elapsed[p] + LONG_TIMEOUT * 1000 < timeout[p]
    /\ elapsed' = Upd(elapsed, p, elapsed[p] + LONG_TIMEOUT * 1000)
    /\ pc' = Upd(pc, p, "recover")
    /\ UNCHANGED <<envVars, storeVars, now, budget, req, fresh, driver, timeout,
                   page, reloads, html_element, verdict, attempt, idx,
                   recoveries, newtabs, res, exc, resp, detVars, start_ts>>

\* a recovery step that lets its failure out
ClickVerifyRaises(raised) == raised

\* click_verify_with_actions, lines 352-385: the exception that leaves the
\* function when one is raised inside it ("" is none): every one is caught
click_verify_with_actions(raised) == ""

\* what a call of the driver made at position p may raise ("" is nothing)
DriverOutcomes(p) ==
    IF ~Live(driver[p]) THEN {MSG_DRIVER}
    ELSE IF flaky THEN {"", MSG_DRIVER} ELSE {""}

\* _evil_logic, lines 505-512: the TimeoutException is caught and
\* click_verify_with_actions runs; it finds no pivot, or fails on the pivot
\* or in the driver, and sleeps 2 s in every case
Recover(p) ==
    /\ pc[p] = "recover"
    /\ \E raised \in DriverOutcomes(p) \cup
                        (IF Live(driver[p]) THEN {MSG_ATTRIBUTE} ELSE {}) :
          IF click_verify_with_actions(raised) = ""
          THEN /\ elapsed[p] + CLICK_VERIFY_SLEEP * 1000 < timeout[p]
               /\ elapsed' = Upd(elapsed, p, elapsed[p] + CLICK_VERIFY_SLEEP * 1000)
               /\ pc' = Upd(pc, p, "reread")
               /\ exc' = exc
          ELSE /\ elapsed' = elapsed
               /\ pc' = Upd(pc, p, "finally")
               /\ exc' = Upd(exc, p, click_verify_with_actions(raised))
    /\ recoveries' = Upd(recoveries, p, recoveries[p] + 1)
    /\ UNCHANGED <<envVars, storeVars, now, budget, req, fresh, driver, timeout,
                   page, reloads, html_element, verdict, attempt, idx, newtabs,
                   res, resp, detVars, start_ts>>

\* _evil_logic, line 515: the root element is read again, and the loop
\* goes to its next iteration
Reread(p) ==
    /\ pc[p] = "reread" /\ Live(driver[p])
    /\ html_element' = Upd(html_element, p, [captured |-> attempt[p], stale |-> FALSE])
    /\ pc' = Upd(pc, p, "attempt")
    /\ UNCHANGED <<envVars, storeVars, now, budget, req, fresh, driver, timeout,
                   elapsed, page, reloads, verdict, attempt, idx, recoveries,
                   newtabs, res, exc, resp, detVars, start_ts>>

\* a redirect wait that lets its failure out
RedirectWaitRaises(raised) == raised

\* _evil_logic, lines 520-523: the exception that leaves the try block
\* around the wait for staleness_of(html_element): every one is caught
RedirectWait(raised) == ""

\* _evil_logic, lines 517-526: the wait for staleness_of(html_element)
\* returns at once when the element is stale, times out after SHORT_TIMEOUT
\* when it is not, or fails in the driver
WaitRedirect(p) ==
    /\ pc[p] = "redirect"
    /\ \E raised \in IF ~Live(driver[p]) THEN {MSG_DRIVER}
                      ELSE (IF html_element[p].stale THEN {""} ELSE {TimeoutException})
                           \cup (IF flaky THEN {MSG_DRIVER} ELSE {}) :
          /\ IF raised = TimeoutException
             THEN /\ elapsed[p] + SHORT_TIMEOUT * 1000 < timeout[p]
                  /\ elapsed' = Upd(elapsed, p, elapsed[p] + SHORT_TIMEOUT * 1000)
             ELSE elapsed' = elapsed
          /\ IF RedirectWait(raised) = ""
             THEN /\ res' = Upd(res, p, [res[p] EXCEPT
                                           !.message = ResolutionMessage(TRUE)])
                  /\ pc' = Upd(pc, p, "extract")
                  /\ exc' = exc
             ELSE /\ res' = res
                  /\ pc' = Upd(pc, p, "finally")
                  /\ exc' = Upd(exc, p, RedirectWait(raised))
    /\ UNCHANGED <<envVars, storeVars, now, budget, req, fresh, driver, timeout,
                   page, reloads, html_element, verdict, attempt, idx,
                   recoveries, newtabs, resp, detVars, start_ts>>

\* a result that always carries the page
ReturnsBodyAlways(r) == TRUE

\* _evil_logic, line 537
ReturnsBody(r) == ~TruthyBool(r.returnOnlyCookies)

\* _evil_logic, lines 531-542: the result payload
Extract(p) ==
    /\ pc[p] = "extract" /\ Live(driver[p])
    /\ res' = Upd(res, p, [res[p] EXCEPT !.result = Some(
          [url |-> "current_url", status |-> 200, cookies |-> "cookies",
           userAgent |-> "user-agent",
           headers |-> IF ReturnsBody(req[p]) THEN Some(<<>>) ELSE None,
           response |-> IF ReturnsBody(req[p]) THEN Some(page[p]) ELSE None])])
    /\ pc' = Upd(pc, p, "finally")
    /\ UNCHANGED <<envVars, storeVars, now, budget, req, fresh, driver, timeout,
                   elapsed, page, reloads, html_element, verdict, attempt, idx,
                   recoveries, newtabs, exc, resp, detVars, start_ts>>

\* the position is inside func_timeout(timeout, _evil_logic, ...)
InEvilLogic(p) ==
    pc[p] \in {"navigate", "detect", "attempt", "wait_title", "wait_selector",
               "recover", "reread", "redirect", "extract"}

\* a call of the browser driver raises (any call does once the driver has
\* been quit); click_verify_with_actions and the staleness wait of line 521
\* swallow it
DriverError(p) ==
    /\ InEvilLogic(p) /\ pc[p] \notin {"recover", "redirect"}
    /\ flaky \/ ~Live(driver[p])
    /\ exc' = Upd(exc, p, MSG_DRIVER)
    /\ pc' = Upd(pc, p, "finally")
    /\ UNCHANGED <<envVars, storeVars, now, budget, req, fresh, driver, timeout,
                   elapsed, waitVars, resp, detVars, start_ts>>

\* func_timeout, line 261: the deadline passes while _evil_logic is in a
\* call (every call takes time the model does not count)
Deadline(p) ==
    /\ InEvilLogic(p)
    /\ exc' = Upd(exc, p, FunctionTimedOut)
    /\ pc' = Upd(pc, p, "finally")
    /\ UNCHANGED <<envVars, storeVars, now, budget, req, fresh, driver, timeout,
                   elapsed, waitVars, resp, detVars, start_ts>>

\* the site replaces the displayed page (a challenge page reloads itself)
PageChange(p) ==
    /\ pc[p] \in {"attempt", "wait_title", "wait_selector", "recover",
                  "reread", "redirect", "extract"}
    /\ reloads[p] < MaxReloads
    /\ \E pg \in Pages(site) \ {page[p]} : page' = Upd(page, p, pg)
    /\ reloads' = Upd(reloads, p, reloads[p] + 1)
    /\ html_element' = Upd(html_element, p, [html_element[p] EXCEPT !.stale = TRUE])
    /\ UNCHANGED <<envVars, storeVars, now, budget, pc, req, fresh, driver,
                   timeout, elapsed, verdict, attempt, idx, recoveries, newtabs,
                   res, exc, resp, detVars, start_ts>>

\* _cmd_request_get, lines 159-163 / _cmd_request_post, lines 176-180
OkResponse(r) ==
    [status |-> r.status, message |-> r.message, session |-> None,
     sessions |-> None, solution |-> r.result]

\* _resolve_challenge, lines 262-271, and the response controller_v1_endpoint
\* builds from what comes out of it
Cleanup(p) ==
    /\ pc[p] = "finally"
    /\ LET raised == IF exc[p] = "" THEN "" ELSE Wrapped(exc[p], timeout[p])
           out(e) == Stamped(IF e = "" THEN OkResponse(res[p]) ELSE ErrorResponse(e),
                             start_ts[p], ClockMs(now) + elapsed[p])
       IN  IF NeedsCleanup(req[p], driver[p])
           THEN \/ \* driver.close() on "nt", then driver.quit()
                   /\ PLATFORM_VERSION = "nt" => Live(driver[p])
                   /\ drivers' = QuitDriver(drivers, driver[p])
                   /\ resp' = Upd(resp, p, Some(out(raised)))
                   /\ exc' = Upd(exc, p, raised)
                \/ \* driver.close() raises: the exception leaves the finally block
                   /\ PLATFORM_VERSION = "nt"
                   /\ flaky \/ ~Live(driver[p])
                   /\ drivers' = drivers
                   /\ resp' = Upd(resp, p, Some(out(MSG_DRIVER)))
                   /\ exc' = Upd(exc, p, MSG_DRIVER)
           ELSE /\ drivers' = drivers
                /\ resp' = Upd(resp, p, Some(out(raised)))
                /\ exc' = Upd(exc, p, raised)
    /\ pc' = Upd(pc, p, "idle")
    /\ UNCHANGED <<envVars, sessions, uuids, now, budget, req, fresh, driver,
                   timeout, elapsed, waitVars, detVars, start_ts>>


----------------------------------------------------------------------------
(* The detector applied to a page snapshot *)

ClassifySnapshot ==
    /\ klass = ""
    /\ klass' = Classify(snapshot)
    /\ UNCHANGED <<envVars, storeVars, now, budget, pc, req, fresh, driver,
                   timeout, elapsed, waitVars, exc, resp, snapshot, start_ts,
                   browser, call>>

----------------------------------------------------------------------------
(* get_correct_window, lines 390-401, on a browser with several tabs *)

\* selenium's NoSuchWindowException: the current window has been closed
MSG_NO_WINDOW == "Message: no such window: target window already closed"

\* selenium's answer to switch_to.window(None)
MSG_BAD_HANDLE == "Message: invalid argument: 'handle' must be a string"

\* the urls a tab may display
TabUrls == {URL \o "page", "about:blank"}

\* current_url.startswith(url), for url = URL
StartsWithUrl(u) == u = URL \o "page"

NoBrowser == [window_handles |-> <<>>, urls |-> <<>>, current |-> 0]

NoCall == [done |-> FALSE, close_other_tabs |-> FALSE, before |-> NoBrowser,
           raised |-> ""]

\* reversed(driver.window_handles)
Reversed(hs) == [i \in 1..Len(hs) |-> hs[Len(hs) + 1 - i]]

\* the handles of hs without h, in their order
WithoutHandle(hs, h) == SelectSeq(hs, LAMBDA x : x # h)

\* lines 393-399: the loop over the handles still to visit; current = 0 means
\* that the current window has been closed, and then driver.current_url raises
RECURSIVE VisitWindows(_, _, _, _)
VisitWindows(todo, b, window_to_keep, close_other_tabs) ==
    IF todo = <<>> THEN [browser |-> b, window_to_keep |-> window_to_keep, raised |-> ""]
    ELSE IF b.current = 0
    THEN [browser |-> b, window_to_keep |-> window_to_keep, raised |-> MSG_NO_WINDOW]
    ELSE IF StartsWithUrl(b.urls[b.current]) /\ window_to_keep = 0
    THEN VisitWindows(Tail(todo), b, Head(todo), close_other_tabs)
    ELSE IF close_other_tabs
    THEN VisitWindows(Tail(todo),
                      [b EXCEPT !.window_handles = WithoutHandle(@, Head(todo)),
                                !.current = 0],
                      window_to_keep, close_other_tabs)
    ELSE VisitWindows(Tail(todo), b, window_to_keep, close_other_tabs)

\* get_correct_window(driver, url, close_other_tabs): the browser it leaves
\* and the exception it raises ("" is none)
get_correct_window(b, close_other_tabs) ==
    IF Len(b.window_handles) > 1
    THEN LET v == VisitWindows(Reversed(b.window_handles), b, 0, close_other_tabs)
         IN  IF v.raised # "" THEN [browser |-> v.browser, raised |-> v.raised]
             ELSE IF v.window_to_keep = 0
             THEN [browser |-> v.browser, raised |-> MSG_BAD_HANDLE]
             ELSE [browser |-> [v.browser EXCEPT !.current = v.window_to_keep],
                   raised |-> ""]
    ELSE [browser |-> b, raised |-> ""]

\* one call of get_correct_window on the browser
CallGetCorrectWindow ==
    /\ ~call.done
    /\ \E c \in BOOLEAN :
          LET out == get_correct_window(browser, c)
          IN  /\ browser' = out.browser
              /\ call' = [done |-> TRUE, close_other_tabs |-> c,
                          before |-> browser, raised |-> out.raised]
    /\ UNCHANGED <<envVars, storeVars, now, budget, pc, req, fresh, driver,
                   timeout, elapsed, waitVars, exc, resp, snapshot, klass,
                   start_ts>>

----------------------------------------------------------------------------
(* Initial states *)

EmptyStore == [sessions |-> <<>>, drivers |-> <<>>]

\* the store after sessions.create of "s1" at minute 0
StoreWithS1 ==
    [sessions |-> [k \in {"s1"} |-> [driver |-> 1, created_at |-> 0]],
     drivers |-> <<[owner |-> "s1", live |-> TRUE]>>]

InitWith(platforms, st, fl, inb, stores, times, bud) ==
    /\ PLATFORM_VERSION \in platforms
    /\ site = st
    /\ flaky = fl
    /\ inbox = inb
    /\ \E s \in stores : sessions = s.sessions /\ drivers = s.drivers
    /\ uuids = 0
    /\ now \in times
    /\ budget = bud
    /\ pc = [p \in Procs |-> "idle"]
    /\ req = [p \in Procs |-> NoReq]
    /\ fresh = [p \in Procs |-> FALSE]
    /\ driver = [p \in Procs |-> 0]
    /\ timeout = [p \in Procs |-> 0]
    /\ elapsed = [p \in Procs |-> 0]
    /\ page = [p \in Procs |-> BlankPage]
    /\ reloads = [p \in Procs |-> 0]
    /\ html_element = [p \in Procs |-> NoElement]
    /\ verdict = [p \in Procs |-> ""]
    /\ attempt = [p \in Procs |-> 0]
    /\ idx = [p \in Procs |-> 0]
    /\ recoveries = [p \in Procs |-> 0]
    /\ newtabs = [p \in Procs |-> 0]
    /\ res = [p \in Procs |-> NoRes]
    /\ exc = [p \in Procs |-> ""]
    /\ resp = [p \in Procs |-> None]
    /\ start_ts = [p \in Procs |-> 0]

OneRequest == [p \in Procs |-> IF p = "w1" THEN 1 ELSE 0]

----------------------------------------------------------------------------
(* Spec: one request.get / request.post from its arrival to its response,  *)
(* on either platform, with or without a session, against a site that may  *)
(* change its page and a driver that may fail.                             *)

Init ==
    /\ InitWith({"nt", "posix"}, "small", TRUE, "requests",
                {EmptyStore, StoreWithS1}, {0, MaxNow}, OneRequest)
    /\ snapshot = BlankPage /\ klass = "-" /\ browser = NoBrowser /\ call = NoCall

Resolve(p) ==
    \/ CmdRequest(p) \/ Navigate(p) \/ Detect(p) \/ AttemptStart(p)
    \/ WaitTitle(p) \/ WaitTitleTimeout(p) \/ WaitSelector(p)
    \/ WaitSelectorTimeout(p) \/ Recover(p) \/ Reread(p) \/ WaitRedirect(p)
    \/ Extract(p)
    \/ DriverError(p) \/ Deadline(p) \/ PageChange(p) \/ Cleanup(p)

Next == \E p \in Procs : Resolve(p)

Spec == Init /\ [][Next]_vars

(* SpecWait: the same request machine for one sessionless GET against the  *)
(* richer site, to study the wait loop.                                    *)

InitWait ==
    /\ InitWith({"posix"}, "wait", TRUE, "wait", {EmptyStore}, {0},
                OneRequest)
    /\ snapshot = BlankPage /\ klass = "-" /\ browser = NoBrowser /\ call = NoCall

SpecWait == InitWait /\ [][Next]_vars

(* SpecStore: two workers handling session commands and requests           *)
(* concurrently against a site without challenges.                         *)

InitStore ==
    /\ InitWith({"posix"}, "clear", FALSE, "store", {EmptyStore}, {0},
                [p \in Procs |-> IF p = "w1" THEN MaxCmds ELSE 1])
    /\ snapshot = BlankPage /\ klass = "-" /\ browser = NoBrowser /\ call = NoCall

NextStore ==
    \/ \E p \in Procs :
          \/ CmdSessionsCreate(p) \/ CmdSessionsDestroy(p) \/ CmdRequest(p)
          \/ Navigate(p) \/ Detect(p) \/ Extract(p) \/ DriverError(p)
          \/ Cleanup(p)
    \/ Tick

SpecStore == InitStore /\ [][NextStore]_vars

(* SpecDispatch: one command of any kind, well formed or not, from its     *)
(* arrival at controller_v1_endpoint to its response.                      *)

InitDispatch ==
    /\ InitWith({"nt", "posix"}, "small", TRUE, "all", {StoreWithS1}, {MaxNow},
                OneRequest)
    /\ snapshot = BlankPage /\ klass = "-" /\ browser = NoBrowser /\ call = NoCall

NextDispatch ==
    \E p \in Procs :
        \/ CmdRejected(p) \/ CmdSessionsCreate(p) \/ CmdSessionsList(p)
        \/ CmdSessionsDestroy(p) \/ Resolve(p)

SpecDispatch == InitDispatch /\ [][NextDispatch]_vars

(* SpecDetect: the detector on every page snapshot of the universe.        *)

InitDetect ==
    /\ InitWith({"posix"}, "clear", FALSE, "none", {EmptyStore}, {0},
                [p \in Procs |-> 0])
    /\ snapshot \in AllPages /\ klass = "" /\ browser = NoBrowser /\ call = NoCall

NextDetect == ClassifySnapshot

SpecDetect == InitDetect /\ [][NextDetect]_vars


(* SpecTabs: get_correct_window on every browser with up to MaxTabs tabs.   *)

InitTabs ==
    /\ InitWith({"posix"}, "clear", FALSE, "none", {EmptyStore}, {0},
                [p \in Procs |-> 0])
    /\ snapshot = BlankPage /\ klass = "-"
    /\ \E n \in 1..MaxTabs :
          /\ browser \in [window_handles : {[i \in 1..n |-> i]},
                           urls : [1..n -> TabUrls], current : 1..n]
    /\ call = NoCall

NextTabs == CallGetCorrectWindow

SpecTabs == InitTabs /\ [][NextTabs]_vars

----------------------------------------------------------------------------
(* Properties *)

Finished(p) == pc[p] = "idle" /\ resp[p] # None

\* the response reports a failure of the browser driver
DriverFailed(p) ==
    /\ resp[p] # None
    /\ Val(resp[p]).message \in {ErrorResponse(Wrapped(MSG_DRIVER, timeout[p])).message,
                                 ErrorResponse(MSG_DRIVER).message}

\* the detector's classes, stated on the snapshot
HasDeniedIndicator(pg) ==
    \/ pg.title \in Range(ACCESS_DENIED_TITLES)
    \/ pg.sels \cap Range(ACCESS_DENIED_SELECTORS) # {}

HasChallengeIndicator(pg) ==
    \/ \E t \in Range(CHALLENGE_TITLES) : Lower(t) = Lower(pg.title)
    \/ pg.sels \cap Range(CHALLENGE_SELECTORS) # {}

\* what the waiter itself waits on: an exact title, or a selector
WaiterIndicator(pg) ==
    \/ pg.title \in Range(CHALLENGE_TITLES)
    \/ pg.sels \cap Range(CHALLENGE_SELECTORS) # {}

\* C1: when a request without a session id, for which a driver was created,
\* has returned or raised, that driver has been quit - on every exit path
\* and on both platforms.  (Violated: on "nt" a close() that raises skips
\* quit().)
C1_EphemeralDriverQuit ==
    \A p \in Procs :
        (Finished(p) /\ IsRequest(req[p]) /\ ~TruthyStr(req[p].session)
            /\ driver[p] # 0)
        => ~drivers[driver[p]].live

\* C2: a GET whose page is detected as challenged and never changes ends,
\* unless the driver fails, with status=error and the message of a timeout
\* after maxTimeout/1000 seconds, never with status=ok.  (Violated: a title
\* that matches a challenge title in another case passes the title waits.)
C2_NeverClearingTimesOut ==
    \A p \in Procs :
        (Finished(p) /\ req[p].cmd = Some("request.get")
            /\ verdict[p] = "CHALLENGED" /\ reloads[p] = 0 /\ newtabs[p] = 0
            /\ ~DriverFailed(p))
        => /\ Val(resp[p]).status = STATUS_ERROR
           /\ Val(resp[p]).message =
                "Error: Error solving the challenge. Timeout after "
                    \o PyFloatStr(EffectiveMaxTimeout(req[p])) \o " seconds."

\* C3: whenever the wait loop is left as cleared, no challenge title and no
\* challenge selector matches the page at that moment.  (Violated: the page
\* can change after a wait has passed.)
C3_ExitOnlyWhenClear ==
    [][\A p \in Procs :
          (pc[p] = "wait_selector" /\ pc'[p] = "redirect")
          => ~WaiterIndicator(page'[p])]_vars

\* C4: the detector yields exactly one of BLOCKED, CHALLENGED, CLEAR for
\* every snapshot: BLOCKED exactly when an access-denied title (exact) or
\* selector matches, whatever else matches; otherwise CHALLENGED exactly when
\* a challenge title (ignoring case) or selector matches; otherwise CLEAR.
C4_DetectorTotal ==
    klass # "" =>
        /\ klass \in {"BLOCKED", "CHALLENGED", "CLEAR"}
        /\ klass = "BLOCKED" <=> HasDeniedIndicator(snapshot)
        /\ klass = "CHALLENGED" <=>
              (~HasDeniedIndicator(snapshot) /\ HasChallengeIndicator(snapshot))
        /\ klass = "CLEAR" <=>
              (~HasDeniedIndicator(snapshot) /\ ~HasChallengeIndicator(snapshot))

C4_Witness ==
    /\ klass = "BLOCKED"
    /\ HasChallengeIndicator(snapshot)
    /\ snapshot.title \notin Range(ACCESS_DENIED_TITLES)

\* C5: a page with an access-denied indicator at detection makes the
\* resolution fail at once with the blocked error: no loop iteration, no
\* recovery action, no new tab, no result payload, and a response with
\* status=error (carrying the blocked message unless cleanup itself raised).
C5_BlockedFailsImmediately ==
    \A p \in Procs :
        (\/ verdict[p] = "BLOCKED"
         \/ /\ verdict[p] # "" /\ reloads[p] = 0 /\ newtabs[p] = 0
            /\ HasDeniedIndicator(page[p]))
        => /\ verdict[p] = "BLOCKED"
           /\ attempt[p] = 0 /\ recoveries[p] = 0 /\ newtabs[p] = 0
           /\ res[p].result = None
           /\ pc[p] \in {"finally", "idle"}
           /\ pc[p] = "finally" => exc[p] = MSG_BLOCKED
           /\ pc[p] = "idle" =>
                /\ resp[p] # None
                /\ Val(resp[p]).status = STATUS_ERROR
                /\ Val(resp[p]).solution = None
                /\ Val(resp[p]).message \in
                     {"Error: Error solving the challenge. " \o MSG_BLOCKED,
                      "Error: " \o MSG_DRIVER}
                /\ Val(resp[p]).message = "Error: " \o MSG_DRIVER
                     => (PLATFORM_VERSION = "nt" /\ ~TruthyStr(req[p].session))

C5_Witness ==
    \E p \in Procs :
        /\ Finished(p) /\ verdict[p] = "BLOCKED"
        /\ HasChallengeIndicator(page[p])
        /\ Val(resp[p]).message = "Error: Error solving the challenge. " \o MSG_BLOCKED


\* the live drivers constructed for session id sid
LiveDriversOf(sid) ==
    {d \in 1..Len(drivers) : drivers[d].owner = sid /\ drivers[d].live}

SessionOwners == {drivers[d].owner : d \in 1..Len(drivers)} \ {EPHEMERAL}

\* C6: under every interleaving of sessions.create, session lookups by
\* requests (with or without TTL) and sessions.destroy, a session id has at
\* most one live driver: the one its store entry holds, and none when the id
\* is not in the store.
C6_OneLiveDriverPerSession ==
    /\ \A sid \in SessionOwners \cup DOMAIN sessions :
          /\ Cardinality(LiveDriversOf(sid)) <= 1
          /\ LiveDriversOf(sid) =
                IF sid \in DOMAIN sessions THEN {sessions[sid].driver} ELSE {}
    /\ \A sid \in DOMAIN sessions :
          /\ sessions[sid].driver \in 1..Len(drivers)
          /\ drivers[sessions[sid].driver].owner = sid

\* two requests in flight after looking up the same id, and a driver of that
\* id already replaced
C6_Witness ==
    /\ pc["w1"] # "idle" /\ pc["w2"] # "idle"
    /\ req["w1"].session = Some("s1") /\ req["w2"].session = Some("s1")
    /\ \E d \in 1..Len(drivers) : drivers[d].owner = "s1" /\ ~drivers[d].live
    /\ Cardinality(LiveDriversOf("s1")) = 1

\* worker p handles a sessions.create command in this step
CreateStep(p) ==
    /\ pc[p] = "idle" /\ budget'[p] = budget[p] - 1
    /\ req'[p].cmd = Some("sessions.create")

\* worker p handles a sessions.destroy command in this step
DestroyStep(p) ==
    /\ pc[p] = "idle" /\ budget'[p] = budget[p] - 1
    /\ req'[p].cmd = Some("sessions.destroy")

\* worker p looks its session up in the store in this step
LookupStep(p) ==
    /\ pc[p] = "idle" /\ pc'[p] = "navigate"
    /\ TruthyStr(req'[p].session)

\* C7: sessions.create of an id that is not in the store is fresh, builds
\* one driver and answers "Session created successfully."; of an id that is
\* in the store it is not fresh, leaves the session and its driver as they
\* are, builds no driver and answers "Session already exists."; without an
\* id it stores the session under a non-empty generated id.
C7_CreateFreshOnce ==
    [][\A p \in Procs : CreateStep(p) =>
          LET r == req'[p]
              out == Val(resp'[p])
          IN  /\ out.status = STATUS_OK
              /\ out.session # None /\ Val(out.session) # ""
              /\ Val(out.session) \in DOMAIN sessions'
              /\ r.session # None => out.session = r.session
              /\ IF r.session # None /\ Val(r.session) \in DOMAIN sessions
                 THEN /\ ~fresh'[p]
                      /\ out.message = "Session already exists."
                      /\ sessions' = sessions /\ drivers' = drivers
                 ELSE /\ fresh'[p]
                      /\ out.message = "Session created successfully."
                      /\ Val(out.session) \notin DOMAIN sessions
                      /\ Len(drivers') = Len(drivers) + 1
                      /\ sessions'[Val(out.session)].driver = Len(drivers')
                      /\ drivers'[Len(drivers')].live]_vars

\* a create without an id has generated one, and a create of "s1" found it
C7_Witness ==
    /\ Finished("w1") /\ req["w1"].cmd = Some("sessions.create")
    /\ req["w1"].session = Some("s1")
    /\ Val(resp["w1"]).message = "Session already exists."
    /\ Finished("w2") /\ req["w2"].cmd = Some("sessions.create")
    /\ req["w2"].session = None
    /\ Val(resp["w2"]).session = Some(Uuid(1))

C9_DestroyThenFresh ==
    [][\A p \in Procs :
          /\ DestroyStep(p) =>
                LET r == req'[p]
                    out == Val(resp'[p])
                IN  IF r.session # None /\ Val(r.session) \in DOMAIN sessions
                    THEN /\ out.status = STATUS_OK
                         /\ out.message = "The session has been removed."
                         /\ Val(r.session) \notin DOMAIN sessions'
                         /\ ~drivers'[sessions[Val(r.session)].driver].live
                         /\ \A k \in DOMAIN sessions' : sessions'[k] = sessions[k]
                         /\ DOMAIN sessions' = DOMAIN sessions \ {Val(r.session)}
                    ELSE /\ out.status = STATUS_ERROR
                         /\ out.message = "Error: The session doesn't exist."
                         /\ sessions' = sessions /\ drivers' = drivers
          /\ (LookupStep(p) /\ Val(req'[p].session) \notin DOMAIN sessions) =>
                /\ fresh'[p]
                /\ Len(drivers') = Len(drivers) + 1
                /\ driver'[p] = Len(drivers')
                /\ drivers'[driver'[p]].live
                /\ sessions'[Val(req'[p].session)].driver = driver'[p]]_vars

\* "s1" was destroyed by w2 and looked up again, fresh, by w1
C9_Witness ==
    /\ Finished("w2") /\ req["w2"].cmd = Some("sessions.destroy")
    /\ req["w2"].session = Some("s1")
    /\ Val(resp["w2"]).status = STATUS_OK
    /\ pc["w1"] = "navigate" /\ req["w1"].session = Some("s1") /\ fresh["w1"]
    /\ driver["w1"] = 2 /\ ~drivers[1].live /\ drivers[1].owner = "s1"

\* C10: a request that names a session never quits that session's driver
\* and never removes the session: while and after it runs, on every exit
\* path, the store holds the session with the request's driver, live, and
\* that driver is the one the store held before unless the lookup was fresh.
C10_SessionDriverKept ==
    \A p \in Procs :
        (IsRequest(req[p]) /\ TruthyStr(req[p].session)) =>
        LET sid == Val(req[p].session)
        IN  /\ sid \in DOMAIN sessions => Live(sessions[sid].driver)
            /\ \A d \in 1..Len(drivers) :
                  (drivers[d].owner = sid /\ ~drivers[d].live) =>
                  (fresh[p] /\ d # driver[p])
            /\ ValidationError(req[p]) = "" =>
                  /\ sid \in DOMAIN sessions
                  /\ sessions[sid].driver = driver[p]
                  /\ ~fresh[p] => driver[p] = StoreWithS1.sessions[sid].driver

\* a request on an existing session has ended in the overall timeout
C10_Witness ==
    \E p \in Procs :
        /\ Finished(p) /\ req[p].session = Some("s1") /\ ~fresh[p]
        /\ attempt[p] > 0
        /\ Val(resp[p]).message =
              "Error: " \o Wrapped(FunctionTimedOut, timeout[p])
        /\ sessions["s1"].driver = driver[p] /\ Live(driver[p])

\* worker p has taken its one command
Accepted(p) == budget[p] < OneRequest[p]

\* the response schema: status, message, the two timestamps and the version
WellFormed(r) ==
    /\ DOMAIN r = {"status", "message", "session", "sessions", "solution",
                   "startTimestamp", "endTimestamp", "version"}
    /\ r.status \in {STATUS_OK, STATUS_ERROR}
    /\ r.message \in STRING
    /\ r.startTimestamp \in Nat /\ r.endTimestamp \in Nat
    /\ r.startTimestamp <= r.endTimestamp
    /\ r.version = VERSION

\* C11: for every command (well formed, invalid, without cmd, with an
\* unknown cmd) and every failure while it is handled, the endpoint returns
\* a well-formed response: no exception escapes, a failure gives
\* status=error with the message of the exception, and only a failure does.
C11_DispatcherTotal ==
    \A p \in Procs :
        /\ (Accepted(p) /\ pc[p] = "idle") =>
              /\ resp[p] # None
              /\ WellFormed(Val(resp[p]))
              /\ Val(resp[p]).status = STATUS_ERROR <=> exc[p] # ""
              /\ exc[p] # "" =>
                    /\ Val(resp[p]).message = "Error: " \o exc[p]
                    /\ Val(resp[p]).solution = None
        /\ pc[p] # "idle" => (Accepted(p) /\ resp[p] = None)

\* the result was complete when driver.close() raised in the cleanup
C11_Witness ==
    \E p \in Procs :
        /\ Finished(p) /\ res[p].result # None
        /\ Val(resp[p]).status = STATUS_ERROR
        /\ Val(resp[p]).message = "Error: " \o MSG_DRIVER

\* C12: request.get with postData "a=b" and without url is answered with
\* status=error and the message that postData cannot be used with a GET.
\* (Violated: the url is checked first.)
C12_GetWithPostData ==
    \A p \in Procs :
        (/\ Accepted(p) /\ pc[p] = "idle"
         /\ req[p].cmd = Some("request.get") /\ req[p].url = None
         /\ req[p].postData = Some("a=b"))
        => /\ Val(resp[p]).status = STATUS_ERROR
           /\ Val(resp[p]).message = "Error: " \o MSG_POSTBODY_GET

\* the requests that lack a mandatory field or carry a forbidden one
LacksMandatoryField(r) ==
    /\ IsRequest(r)
    /\ \/ r.url = None
       \/ r.cmd = Some("request.post") /\ r.postData = None
       \/ r.cmd = Some("request.get") /\ r.postData # None

\* C13: a request without url (get or post), a post without postData and a
\* get with postData are rejected as validation errors before a driver is
\* created and before the store is looked up or modified.  (Violated: a
\* request.post without url is resolved.)
C13_ValidationBeforeWork ==
    \A p \in Procs :
        (Accepted(p) /\ LacksMandatoryField(req[p]))
        => /\ pc[p] = "idle" /\ driver[p] = 0
           /\ sessions = StoreWithS1.sessions /\ drivers = StoreWithS1.drivers
           /\ Val(resp[p]).status = STATUS_ERROR
           /\ Val(resp[p]).message \in
                 {"Error: " \o MSG_URL_MANDATORY, "Error: " \o MSG_POSTBODY_GET,
                  "Error: " \o MSG_POSTDATA_MANDATORY}

\* C14: a successful resolution carries url, cookies, userAgent and status
\* 200; with returnOnlyCookies true it has no response and no non-empty
\* headers; with returnOnlyCookies unset or false its response is the page
\* markup and its headers are the empty map.
C14_ReturnOnlyCookies ==
    \A p \in Procs :
        (Finished(p) /\ IsRequest(req[p]) /\ Val(resp[p]).status = STATUS_OK)
        => /\ Val(resp[p]).solution # None
           /\ LET sol == Val(Val(resp[p]).solution)
              IN  /\ sol.url = "current_url" /\ sol.cookies = "cookies"
                  /\ sol.userAgent = "user-agent" /\ sol.status = 200
                  /\ IF req[p].returnOnlyCookies = Some(TRUE)
                     THEN /\ sol.response = None
                          /\ sol.headers \in {None, Some(<<>>)}
                     ELSE /\ sol.response = Some(page[p])
                          /\ sol.headers = Some(<<>>)

C14_Witness ==
    \E p \in Procs :
        /\ Finished(p) /\ req[p].cmd = Some("request.post")
        /\ req[p].returnOnlyCookies = Some(TRUE)
        /\ Val(resp[p]).message = "Challenge solved!"
        /\ Val(Val(resp[p]).solution).response = None

\* the wait loop was entered and left through its break
LoopExited(p) == attempt[p] > 0 /\ idx[p] = 0

\* C15: a page classified CLEAR skips the waiter: no attempt, no new tab,
\* no recovery; the request, unless it fails, answers status=ok, "Challenge
\* not detected!", with the page markup as response (when the response is
\* returned at all).  A successful answer says "Challenge solved!" exactly
\* when a challenge was detected, and then the wait loop was left cleared.
C15_ClearSkipsWaiter ==
    \A p \in Procs :
        /\ verdict[p] = "CLEAR" =>
              /\ attempt[p] = 0 /\ newtabs[p] = 0 /\ recoveries[p] = 0
              /\ pc[p] \in {"extract", "finally", "idle"}
              /\ res[p].message = "Challenge not detected!"
              /\ (Finished(p) /\ exc[p] = "") =>
                    /\ Val(resp[p]).status = STATUS_OK
                    /\ Val(resp[p]).message = "Challenge not detected!"
                    /\ ReturnsBody(req[p]) =>
                          Val(Val(resp[p]).solution).response = Some(page[p])
        /\ res[p].message = "Challenge solved!" =>
              (verdict[p] = "CHALLENGED" /\ LoopExited(p))
        /\ (Finished(p) /\ IsRequest(req[p]) /\ exc[p] = "") =>
              /\ Val(resp[p]).message \in {"Challenge solved!", "Challenge not detected!"}
              /\ Val(resp[p]).message = "Challenge solved!" <=>
                    (verdict[p] = "CHALLENGED" /\ LoopExited(p))

C15_Witness ==
    \E p \in Procs :
        /\ Finished(p) /\ verdict[p] = "CLEAR"
        /\ Val(resp[p]).status = STATUS_OK
        /\ Val(resp[p]).message = "Challenge not detected!"
        /\ Val(Val(resp[p]).solution).response = Some(ClearPage)

\* C16: the deadline of a command is 60000 ms when maxTimeout is absent or
\* below 1, and the supplied maxTimeout otherwise; it is set when the command
\* is dispatched, the resolution never sleeps beyond it, and the timeout
\* error reports it in seconds.
C16_EffectiveDeadline ==
    \A p \in Procs :
        (Accepted(p) /\ req[p].cmd # None) =>
        LET m == req[p].maxTimeout
            d == IF m = None THEN 60000 ELSE IF Val(m) < 1 THEN 60000 ELSE Val(m)
        IN  /\ timeout[p] = d
            /\ elapsed[p] <= d
            /\ (pc[p] = "idle" /\ Val(resp[p]).solution = None
                    /\ IsRequest(req[p]) /\ LoopExited(p) = FALSE /\ attempt[p] > 0
                    /\ ~DriverFailed(p)) =>
                  Val(resp[p]).message =
                      "Error: Error solving the challenge. Timeout after "
                          \o PyFloatStr(d) \o " seconds."

\* a maxTimeout of 0 has ended in the timeout of the default deadline
C16_Witness ==
    \E p \in Procs :
        /\ Finished(p) /\ req[p].maxTimeout = Some(0) /\ attempt[p] > 0
        /\ Val(resp[p]).message =
              "Error: Error solving the challenge. Timeout after 60.0 seconds."
\* C17: a wait that times out on a challenge title or selector leads to the
\* recovery action; whatever fails inside the recovery action, the root
\* element is then read again and the next attempt starts at the first
\* title; between the timeout and the re-read only the overall deadline ends
\* the request, and at the re-read only the deadline or a failure of the
\* driver does.
C17_WaitTimeoutRecovers ==
    [][\A p \in Procs :
          /\ (pc[p] \in {"wait_title", "wait_selector"} /\ elapsed'[p] # elapsed[p])
                => (pc'[p] = "recover" /\ elapsed'[p] = elapsed[p] + LONG_TIMEOUT * 1000)
          /\ (pc[p] = "recover" /\ pc'[p] # "recover") =>
                \/ /\ pc'[p] = "reread"
                   /\ recoveries'[p] = recoveries[p] + 1
                   /\ elapsed'[p] = elapsed[p] + CLICK_VERIFY_SLEEP * 1000
                \/ pc'[p] = "finally" /\ exc'[p] = FunctionTimedOut
          /\ (pc[p] = "reread" /\ pc'[p] # "reread") =>
                \/ /\ pc'[p] = "attempt"
                   /\ html_element'[p] = [captured |-> attempt[p], stale |-> FALSE]
                \/ pc'[p] = "finally" /\ exc'[p] \in {FunctionTimedOut, MSG_DRIVER}
          /\ (pc[p] = "attempt" /\ pc'[p] = "wait_title") =>
                (attempt'[p] = attempt[p] + 1 /\ idx'[p] = 1)
          /\ (pc'[p] = "idle" /\ pc[p] # "idle" /\ recoveries[p] > 0
                 /\ Val(resp'[p]).status = STATUS_ERROR) =>
                exc'[p] \in {Wrapped(FunctionTimedOut, timeout[p]),
                             Wrapped(MSG_DRIVER, timeout[p]), MSG_DRIVER}]_vars

\* the third attempt runs after two wait timeouts and two recoveries
C17_Witness ==
    \E p \in Procs :
        /\ pc[p] = "wait_selector" /\ attempt[p] = 3 /\ recoveries[p] = 2
        /\ html_element[p].captured = 2

\* C18: attempt is 1 in the first iteration and grows by exactly 1 in every
\* iteration; the new tab is opened in the iterations whose attempt is a
\* multiple of 3 and in no other, at the head of the iteration, before its
\* title and selector waits.
C18_NewTabEveryThird ==
    [][\A p \in Procs :
          /\ attempt'[p] # attempt[p] =>
                \/ pc[p] = "idle" /\ attempt'[p] = 0
                \/ /\ pc[p] = "attempt" /\ pc'[p] = "wait_title" /\ idx'[p] = 1
                   /\ attempt'[p] = attempt[p] + 1
          /\ (pc[p] = "attempt" /\ pc'[p] = "wait_title") =>
                /\ attempt'[p] = attempt[p] + 1
                /\ newtabs'[p] = newtabs[p] + (IF attempt'[p] % 3 = 0 THEN 1 ELSE 0)
          /\ newtabs'[p] # newtabs[p] =>
                (pc[p] \in {"idle", "attempt"} /\ pc'[p] \in {"wait_title", "navigate", "finally", "idle"})
          /\ newtabs'[p] = attempt'[p] \div 3
          /\ pc'[p] \in {"wait_title", "wait_selector", "recover", "reread", "redirect"}
                => attempt'[p] >= 1
          /\ (pc[p] = "detect" /\ pc'[p] = "attempt") => attempt'[p] = 0]_vars

\* the sixth attempt is waiting in the second new tab
C18_Witness ==
    \E p \in Procs :
        /\ pc[p] = "wait_title" /\ attempt[p] = 6 /\ newtabs[p] = 2
        /\ recoveries[p] = 5

\* the newest tab of b whose own url starts with the target url, 0 if none
NewestMatching(b) ==
    LET ok == {i \in 1..Len(b.window_handles) :
                  StartsWithUrl(b.urls[b.window_handles[i]])}
    IN  IF ok = {} THEN 0
        ELSE b.window_handles[CHOOSE i \in ok : \A j \in ok : j <= i]

\* C19: get_correct_window with close_other_tabs, called with more than one
\* tab open, raises nothing and leaves one tab, open and current: the newest
\* one whose own url starts with the target url; called with one tab it
\* changes nothing.  (Violated: it reads the url of the current tab only,
\* and reads it again after that tab has been closed.)
C19_KeepsNewestMatchingTab ==
    (call.done /\ call.close_other_tabs) =>
        IF Len(call.before.window_handles) > 1
        THEN /\ call.raised = ""
             /\ Len(browser.window_handles) = 1
             /\ browser.current = browser.window_handles[1]
             /\ NewestMatching(call.before) # 0 =>
                    browser.current = NewestMatching(call.before)
        ELSE call.raised = "" /\ browser = call.before

\* C20: when the loop has been left, the short wait for the root element to
\* go stale is made on the element captured last (at detection, or at the
\* re-read after the last wait timeout); whether it returns, times out or
\* fails, the resolution goes on to the extraction with "Challenge solved!",
\* and unless something else fails the answer is status=ok with it.
C20_RedirectWaitTolerated ==
    [][\A p \in Procs :
          /\ pc'[p] = "redirect" =>
                /\ html_element'[p].captured = attempt'[p] - 1
                /\ recoveries'[p] = attempt'[p] - 1
          /\ (pc[p] = "redirect" /\ pc'[p] # "redirect") =>
                \/ /\ pc'[p] = "extract"
                   /\ res'[p].message = "Challenge solved!"
                   /\ elapsed'[p] \in {elapsed[p], elapsed[p] + SHORT_TIMEOUT * 1000}
                \/ pc'[p] = "finally" /\ exc'[p] = FunctionTimedOut
          /\ (pc[p] = "finally" /\ pc'[p] = "idle" /\ exc'[p] = "" /\ LoopExited(p)) =>
                /\ Val(resp'[p]).status = STATUS_OK
                /\ Val(resp'[p]).message = "Challenge solved!"
                /\ Val(resp'[p]).solution # None]_vars

\* the page cleared before the re-read of the first attempt, the second
\* attempt passed and the wait on the element of the re-read timed out
C20_Witness ==
    \E p \in Procs :
        /\ Finished(p) /\ Val(resp[p]).status = STATUS_OK
        /\ Val(resp[p]).message = "Challenge solved!"
        /\ attempt[p] = 2 /\ recoveries[p] = 1
        /\ html_element[p] = [captured |-> 1, stale |-> FALSE]
        /\ elapsed[p] = (LONG_TIMEOUT + CLICK_VERIFY_SLEEP + SHORT_TIMEOUT) * 1000
\* C21: while a request that named a session is inside its resolution, the
\* driver it took from the store is alive, whatever the other worker does:
\* neither a sessions.destroy of the same id nor a lookup of the same id
\* whose TTL has expired releases it.  (Violated: both release the driver
\* at once; neither the store nor the handlers know that it is borrowed.)
C21_BorrowedDriverKept ==
    \A p \in Procs :
        (InEvilLogic(p) /\ TruthyStr(req[p].session) /\ driver[p] # 0)
        => Live(driver[p])

\* C22: a page that the detector finds challenged by its title (ignoring
\* case) is held by the title waits of the loop as long as its title is the
\* one detected: the loop is not past its title waits while the page is
\* unchanged.  (Violated: the waits compare the title exactly.)
C22_TitleAgreement ==
    \A p \in Procs :
        (/\ verdict[p] = "CHALLENGED" /\ ChallengeTitle(page[p]) # 0
         /\ reloads[p] = 0 /\ newtabs[p] = 0)
        => /\ pc[p] \notin {"wait_selector", "redirect", "extract"}
           /\ ~LoopExited(p)

====
